---- MODULE Spec2Model ----
(***************************************************************************)
(* Model of app.py: main() runs simulate_watch() over a list of video ids. *)
(* One action per statement group of the code; the browser driver, the     *)
(* metadata API and the random source are the environment, drawn with \E.  *)
(* Fractions are kept in hundredths (0.8 is 80), durations in seconds.     *)
(***************************************************************************)
EXTENDS Integers, Sequences, FiniteSets, TLC

\* ---------------------------------------------------------------- bounds
MaxVideos == 2
MaxDuration == 2
MsgExtra == 1

\* ------------------------------------------------------ program constants
DEFAULT_WATCH_PERCENTAGE == 80
MinPercentage == 10
MaxPercentage == 95
MaxVariation == 10
ErrorPrefixLen == 50

\* ----------------------------------------------------------- input sets
Ids == {"v1", "v2"}

RECURSIVE SeqsOver(_, _)
SeqsOver(S, n) ==
    IF n = 0 THEN {<<>>}
    ELSE LET shorter == SeqsOver(S, n - 1)
         IN shorter \cup {Append(s, x) : s \in {t \in shorter : Len(t) = n - 1}, x \in S}

VideoLists == SeqsOver(Ids, MaxVideos)

\* --percentage is any float: 0.0 (falsy), a fraction in range, one above 1.0
ArgPercentages == {0, 5, 150}

\* random.uniform(-0.1, 0.1): both ends of the interval
Variations == {-MaxVariation, MaxVariation}

\* video.duration as the driver returns it: <<>> is None, <<d>> a number
Durations == {<<>>} \cup {<<d>> : d \in -1..MaxDuration}

\* str(e) of an exception: a string as long as the prefix kept in the
\* history row, and one longer than it
MkMsg(n) == [i \in 1..n |-> i % 7]
Messages == {MkMsg(ErrorPrefixLen), MkMsg(ErrorPrefixLen + MsgExtra)}

\* blacklist.csv as loaded, --blacklist and --blacklist-file (stripped lines)
BlacklistInputs ==
    { [csv |-> <<>>, arg |-> <<>>, file |-> <<>>],
      [csv |-> <<"v1">>, arg |-> <<"v1", "v3", "v3">>, file |-> <<"v3", "", "v4", "v4">>] }

\* item['snippet']['title'] of the record the API holds for an id
Title(id) == <<"title", id>>

NoExc == [type |-> "none", msg |-> <<>>]

VARIABLES
    args,             \* parsed command line
    blacklist_csv,    \* rows of blacklist.csv (video ids)
    video_ids, watch_percentage, randomize, blacklist,   \* locals of main
    pc,               \* position in main / simulate_watch
    video_details,    \* result of get_video_details in the latest call
    rows_before,      \* number of history rows when the latest call started
    idx,              \* position of the for loop in video_ids (1-based)
    attempted,        \* ids simulate_watch was called with, in call order
    delays,           \* positions after which the inter-video sleep ran
    summary,          \* "Completed processing" was printed
    mainError,        \* step whose exception reached main's except clause
    history,          \* rows of watch_history.csv
    opens, quits,     \* per position: webdriver.Chrome() / driver.quit() calls
    eff_percentage,   \* simulate_watch's watch_percentage after randomization
    duration, watch_time, video_played,
    ticks, stalls, plays, pauses,
    trail,            \* steps of the session entered so far, in order
    exc, excStep      \* exception raised inside the try block, and where

mainVars == <<args, blacklist_csv, video_ids, watch_percentage, randomize, blacklist>>
loopVars == <<idx, attempted, delays, summary, mainError>>
storeVars == <<history, opens, quits>>
localVars == <<eff_percentage, duration, watch_time, video_played,
               ticks, stalls, plays, pauses, trail, exc, excStep>>
callVars == <<video_details, rows_before>>
vars == <<mainVars, loopVars, storeVars, localVars, callVars, pc>>

\* the locals of simulate_watch outside a call
FreshLocals ==
    /\ eff_percentage = 0
    /\ duration = <<>>
    /\ watch_time = 0
    /\ video_played = "unset"
    /\ ticks = 0
    /\ stalls = 0
    /\ plays = 0
    /\ pauses = 0
    /\ trail = <<>>
    /\ exc = NoExc
    /\ excStep = "none"

\* simulate_watch returns: its frame is gone
ResetLocals ==
    /\ eff_percentage' = 0
    /\ duration' = <<>>
    /\ watch_time' = 0
    /\ video_played' = "unset"
    /\ ticks' = 0
    /\ stalls' = 0
    /\ plays' = 0
    /\ pauses' = 0
    /\ trail' = <<>>
    /\ exc' = NoExc
    /\ excStep' = "none"

Init ==
    /\ args \in [videos : VideoLists, percentage : ArgPercentages,
                 randomize : BOOLEAN, blacklist : {b.arg : b \in BlacklistInputs},
                 blacklist_file : {b.file : b \in BlacklistInputs}]
    /\ \E b \in BlacklistInputs :
          /\ blacklist_csv = b.csv
          /\ args.blacklist = b.arg
          /\ args.blacklist_file = b.file
    /\ video_ids = <<>>
    /\ watch_percentage = 0
    /\ randomize = FALSE
    /\ blacklist = <<>>
    /\ pc = "main"
    /\ video_details = "unset"
    /\ rows_before = 0
    /\ idx = 0
    /\ attempted = <<>>
    /\ delays = {}
    /\ summary = FALSE
    /\ mainError = "none"
    /\ history = <<>>
    /\ opens = [i \in 1..Len(args.videos) |-> 0]
    /\ quits = [i \in 1..Len(args.videos) |-> 0]
    /\ FreshLocals

\* ------------------------------------------------------------------ main
RECURSIVE AddAllNoCheck(_, _, _)
AddAllNoCheck(bl, adds, skipEmpty) ==
    IF adds = <<>> THEN bl
    ELSE AddAllNoCheck(IF skipEmpty /\ Head(adds) = "" THEN bl ELSE Append(bl, Head(adds)),
                       Tail(adds), skipEmpty)

\* lines 352-355 and 359-363: append each id that is not yet in the list;
\* only the file loop skips empty lines
RECURSIVE AddAll(_, _, _)
AddAll(bl, adds, skipEmpty) ==
    IF adds = <<>> THEN bl
    ELSE LET vid == Head(adds)
             isin == \E i \in 1..Len(bl) : bl[i] = vid
             skip == isin \/ (skipEmpty /\ vid = "")
         IN AddAll(IF skip THEN bl ELSE Append(bl, vid), Tail(adds), skipEmpty)

\* list.index(x): 0-based position of the first occurrence
IndexOf(seq, x) == (CHOOSE i \in 1..Len(seq) : seq[i] = x /\ \A j \in 1..(i - 1) : seq[j] # x) - 1

\* lines 334-363
ProcessArgs ==
    /\ pc = "main"
    /\ watch_percentage' = IF args.percentage # 0 THEN args.percentage
                           ELSE DEFAULT_WATCH_PERCENTAGE
    /\ randomize' = args.randomize
    /\ video_ids' = args.videos
    /\ blacklist' = AddAll(AddAll(blacklist_csv, args.blacklist, FALSE),
                           args.blacklist_file, TRUE)
    /\ blacklist_csv' = blacklist'
    /\ pc' = "auth"
    /\ UNCHANGED <<args, callVars, loopVars, storeVars, localVars>>

\* lines 366-373: get_authenticated_service() raises, or the id list is empty
Authenticate ==
    /\ pc = "auth"
    /\ \/ /\ mainError' = "auth"
          /\ pc' = "main_except"
          /\ idx' = idx
       \/ /\ video_ids = <<>>
          /\ pc' = "done"
          /\ UNCHANGED <<mainError, idx>>
       \/ /\ video_ids # <<>>
          /\ pc' = "loop"
          /\ idx' = 1
          /\ mainError' = mainError
    /\ UNCHANGED <<callVars, mainVars, attempted, delays, summary, storeVars, localVars>>

\* line 376-377: the for loop takes the next id and calls simulate_watch
CallSimulateWatch ==
    /\ pc = "loop"
    /\ idx <= Len(video_ids)
    /\ attempted' = Append(attempted, video_ids[idx])
    /\ video_details' = "unset"
    /\ rows_before' = Len(history)
    /\ pc' = "details"
    /\ UNCHANGED <<mainVars, idx, delays, summary, mainError, storeVars, localVars>>

\* lines 386-390: the delay between videos, then the next iteration
AfterCall ==
    /\ pc = "after_call"
    /\ delays' = IF IndexOf(video_ids, video_ids[idx]) < Len(video_ids) - 1
                 THEN delays \cup {idx} ELSE delays
    /\ idx' = idx + 1
    /\ video_details' = "unset"
    /\ pc' = "loop"
    /\ UNCHANGED <<rows_before, mainVars, attempted, summary, mainError, storeVars, localVars>>

\* lines 392-393
Summary ==
    /\ pc = "loop"
    /\ idx > Len(video_ids)
    /\ summary' = TRUE
    /\ pc' = "done"
    /\ UNCHANGED <<callVars, mainVars, idx, attempted, delays, mainError, storeVars, localVars>>

\* lines 395-396: main's except clause ends the run
MainExcept ==
    /\ pc = "main_except"
    /\ pc' = "done"
    /\ UNCHANGED <<callVars, mainVars, loopVars, storeVars, localVars>>

\* -------------------------------------------------------- simulate_watch
video_id == video_ids[idx]

\* int(x) of a value kept in hundredths: truncation toward zero
IntPartRound(h) == (h + 50) \div 100

IntPart(h) == IF h >= 0 THEN h \div 100 ELSE -((-h) \div 100)

Min(a, b) == IF a < b THEN a ELSE b
Max(a, b) == IF a > b THEN a ELSE b

JitteredUnclamped(base, enabled, variation) ==
    IF enabled THEN base + variation ELSE base

\* lines 181-183
Jittered(base, enabled, variation) ==
    IF enabled THEN Max(MinPercentage, Min(MaxPercentage, base + variation))
    ELSE base

NoDetailsNever(details) == FALSE

\* line 173: `if not video_details`
NoDetails(details) == details = "none"

InvalidDurationNegative(d) == d = <<>> \/ d[1] < 0

\* line 229: `duration is None or duration <= 0`
InvalidDuration(d) == d = <<>> \/ d[1] <= 0

PlayFailedNever(played) == FALSE

\* line 250: `if not video_played`
PlayFailed(played) == ~played

TruncateWhole(msg) == msg

\* line 323: str(e)[:50]
Truncate(msg) == SubSeq(msg, 1, Min(Len(msg), ErrorPrefixLen))

Status(kind, detail) == [kind |-> kind, detail |-> detail]

\* lines 75-90: one row appended to the history file
save_overwriting(id, title, percentage, status) ==
    history' = <<[video_id |-> id, title |-> title,
                  percentage |-> percentage, status |-> status]>>

save_to_history(id, title, percentage, status) ==
    history' = Append(history, [video_id |-> id, title |-> title,
                                percentage |-> percentage, status |-> status])

Exceptions(types) == [type : types, msg : Messages]

\* the except clauses of the optional steps: lines 213, 262, 295, 314
Caught(step, type) ==
    CASE step = "cookie" -> type \in {"Timeout", "NoSuchElement"}
      [] step \in {"skip_ad", "like", "menu", "dont_rec"} -> type = "Timeout"
      [] OTHER -> FALSE

HandlerPcTimeoutOnly(e) == IF e.type = "Timeout" THEN "except" ELSE "main_except"

\* line 320: `except Exception` takes every exception raised in the try block
HandlerPc(e) == "except"

ExitPcLeak(how) == IF how = "return" THEN "after_call" ELSE "finally"

\* lines 197, 325: a return or the end of the try block runs the finally clause
ExitPc(how) == "finally"

\* an exception raised by `step` inside the try block
Raise(step, e) ==
    /\ exc' = e
    /\ excStep' = step
    /\ pc' = HandlerPc(e)

\* an exception raised by `step`, which has an except clause of its own
Fail(step, e, next) ==
    IF Caught(step, e.type)
    THEN /\ pc' = next
         /\ UNCHANGED <<exc, excStep>>
    ELSE Raise(step, e)

\* WebDriverWait(...).until(...) followed by .click(), inside try/except
WaitAndClick(step, next, skipTo) ==
    \/ \E e \in Exceptions({"Timeout"}) : Fail(step, e, skipTo)
    \/ \E e \in Exceptions({"Interaction"}) : Fail(step, e, skipTo)
    \/ /\ pc' = next
       /\ UNCHANGED <<exc, excStep>>

\* lines 172-178
GetDetails ==
    /\ pc = "details"
    /\ \/ /\ mainError' = "details"
          /\ pc' = "main_except"
          /\ video_details' = video_details
       \/ /\ \E details \in {"none", "found"} :
                /\ video_details' = details
                /\ pc' = IF NoDetails(details) THEN "after_call" ELSE "randomize"
          /\ mainError' = mainError
    /\ UNCHANGED <<rows_before, mainVars, idx, attempted, delays, summary, storeVars, localVars>>

\* lines 180-184
Randomize ==
    /\ pc = "randomize"
    /\ \E variation \in Variations :
          eff_percentage' = Jittered(watch_percentage, randomize, variation)
    /\ pc' = "launch"
    /\ UNCHANGED <<callVars, mainVars, loopVars, storeVars, duration, watch_time, video_played,
                   ticks, stalls, plays, pauses, trail, exc, excStep>>

\* lines 186-195: webdriver.Chrome() starts the browser or raises
Launch ==
    /\ pc = "launch"
    /\ trail' = Append(trail, "launch")
    /\ \/ /\ opens' = [opens EXCEPT ![idx] = @ + 1]
          /\ pc' = "navigate"
          /\ mainError' = mainError
       \/ /\ mainError' = "launch"
          /\ pc' = "main_except"
          /\ opens' = opens
    /\ UNCHANGED <<callVars, mainVars, idx, attempted, delays, summary, history, quits, eff_percentage, duration, watch_time, video_played,
                   ticks, stalls, plays, pauses, exc, excStep>>

\* lines 198-204: driver.get(url)
Navigate ==
    /\ pc = "navigate"
    /\ trail' = Append(trail, "navigate")
    /\ \/ /\ pc' = "cookie"
          /\ UNCHANGED <<exc, excStep>>
       \/ \E e \in Exceptions({"WebDriver"}) : Raise("navigate", e)
    /\ UNCHANGED <<callVars, mainVars, loopVars, storeVars, eff_percentage, duration, watch_time,
                   video_played, ticks, stalls, plays, pauses>>

\* lines 206-215
Cookie ==
    /\ pc = "cookie"
    /\ trail' = Append(trail, "cookie")
    /\ WaitAndClick("cookie", "wait_video", "wait_video")
    /\ UNCHANGED <<callVars, mainVars, loopVars, storeVars, eff_percentage, duration, watch_time,
                   video_played, ticks, stalls, plays, pauses>>

\* lines 217-220: the bounded wait for the video element
WaitVideo ==
    /\ pc = "wait_video"
    /\ trail' = Append(trail, "wait_video")
    /\ \/ /\ pc' = "duration"
          /\ UNCHANGED <<exc, excStep>>
       \/ \E e \in Exceptions({"Timeout"}) : Raise("wait_video", e)
    /\ UNCHANGED <<callVars, mainVars, loopVars, storeVars, eff_percentage, duration, watch_time,
                   video_played, ticks, stalls, plays, pauses>>

\* lines 222-236
ProbeDuration ==
    /\ pc = "duration"
    /\ trail' = Append(trail, "duration")
    /\ \/ /\ \E d \in Durations :
                /\ duration' = d
                /\ IF InvalidDuration(d)
                   THEN /\ save_to_history(video_id, Title(video_id), eff_percentage,
                                           Status("Failed - Invalid Duration", <<>>))
                        /\ pc' = ExitPc("return")
                        /\ watch_time' = watch_time
                   ELSE /\ watch_time' = d[1] * eff_percentage
                        /\ pc' = "play"
                        /\ history' = history
          /\ UNCHANGED <<exc, excStep>>
       \/ /\ \E e \in Exceptions({"WebDriver"}) : Raise("duration", e)
          /\ UNCHANGED <<duration, watch_time, history>>
    /\ UNCHANGED <<callVars, mainVars, loopVars, opens, quits, eff_percentage,
                   video_played, ticks, stalls, plays, pauses>>

\* lines 238-253
Play ==
    /\ pc = "play"
    /\ trail' = Append(trail, "play")
    /\ \/ /\ \E played \in BOOLEAN :
                /\ video_played' = IF played THEN "true" ELSE "false"
                /\ IF PlayFailed(played)
                   THEN /\ save_to_history(video_id, Title(video_id), eff_percentage,
                                           Status("Failed - Could Not Play", <<>>))
                        /\ pc' = ExitPc("return")
                   ELSE /\ pc' = "skip_ad"
                        /\ history' = history
          /\ plays' = plays + 1
          /\ UNCHANGED <<exc, excStep>>
       \/ /\ \E e \in Exceptions({"WebDriver"}) : Raise("play", e)
          /\ UNCHANGED <<video_played, plays, history>>
    /\ UNCHANGED <<callVars, mainVars, loopVars, opens, quits, eff_percentage, duration, watch_time,
                   ticks, stalls, pauses>>

\* lines 255-264
SkipAd ==
    /\ pc = "skip_ad"
    /\ trail' = Append(trail, "skip_ad")
    /\ WaitAndClick("skip_ad", "monitor", "monitor")
    /\ UNCHANGED <<callVars, mainVars, loopVars, storeVars, eff_percentage, duration, watch_time,
                   video_played, ticks, stalls, plays, pauses>>

OnStallGiveUp ==
    /\ stalls' = stalls + 1
    /\ plays' = plays
    /\ pc' = ExitPc("return")
    /\ UNCHANGED <<exc, excStep>>

\* lines 277-279: the player is not playing: the play script is run again
OnStall ==
    /\ stalls' = stalls + 1
    /\ \/ /\ plays' = plays + 1
          /\ pc' = "monitor"
          /\ UNCHANGED <<exc, excStep>>
       \/ /\ \E e \in Exceptions({"WebDriver"}) : Raise("resume", e)
          /\ plays' = plays

\* lines 267-279: one iteration of the watch loop
MonitorTick ==
    /\ pc = "monitor"
    /\ trail' = Append(trail, "tick")
    /\ ticks < IntPart(watch_time)
    /\ ticks' = ticks + 1
    /\ \/ /\ pc' = "monitor"
          /\ UNCHANGED <<stalls, plays, exc, excStep>>
       \/ \E is_playing \in BOOLEAN :
             IF is_playing
             THEN /\ pc' = "monitor"
                  /\ UNCHANGED <<stalls, plays, exc, excStep>>
             ELSE OnStall
       \/ /\ \E e \in Exceptions({"WebDriver"}) : Raise("probe", e)
          /\ UNCHANGED <<stalls, plays>>
    /\ UNCHANGED <<callVars, mainVars, loopVars, storeVars, eff_percentage, duration, watch_time,
                   video_played, pauses>>

PauseSkipped ==
    /\ pc = "monitor"
    /\ ticks >= IntPart(watch_time)
    /\ pc' = "like"
    /\ UNCHANGED <<callVars, mainVars, loopVars, storeVars, localVars>>

\* lines 281-286: the loop is over, the pause script runs
Pause ==
    /\ pc = "monitor"
    /\ trail' = Append(trail, "pause")
    /\ ticks >= IntPart(watch_time)
    /\ \/ /\ pauses' = pauses + 1
          /\ pc' = "like"
          /\ UNCHANGED <<exc, excStep>>
       \/ /\ \E e \in Exceptions({"WebDriver"}) : Raise("pause", e)
          /\ pauses' = pauses
    /\ UNCHANGED <<callVars, mainVars, loopVars, storeVars, eff_percentage, duration, watch_time,
                   video_played, ticks, stalls, plays>>

\* lines 288-296
Like ==
    /\ pc = "like"
    /\ trail' = Append(trail, "like")
    /\ WaitAndClick("like", "suppress", "suppress")
    /\ UNCHANGED <<callVars, mainVars, loopVars, storeVars, eff_percentage, duration, watch_time,
                   video_played, ticks, stalls, plays, pauses>>

\* line 299: `blacklist and video_id in blacklist`
IsBlacklisted(id) == blacklist # <<>> /\ \E i \in 1..Len(blacklist) : blacklist[i] = id

\* lines 298-306: the menu button, for a blacklisted id only
SuppressMenu ==
    /\ pc = "suppress"
    /\ IF IsBlacklisted(video_id)
       THEN /\ trail' = Append(trail, "menu")
            /\ WaitAndClick("menu", "dont_rec", "success")
       ELSE /\ pc' = "success"
            /\ UNCHANGED <<trail, exc, excStep>>
    /\ UNCHANGED <<callVars, mainVars, loopVars, storeVars, eff_percentage, duration, watch_time,
                   video_played, ticks, stalls, plays, pauses>>

\* lines 308-315: the "Don't recommend channel" entry of the open menu
SuppressSelect ==
    /\ pc = "dont_rec"
    /\ trail' = Append(trail, "dont_rec")
    /\ WaitAndClick("dont_rec", "success", "success")
    /\ UNCHANGED <<callVars, mainVars, loopVars, storeVars, eff_percentage, duration, watch_time,
                   video_played, ticks, stalls, plays, pauses>>

\* lines 317-318
RecordSuccess ==
    /\ pc = "success"
    /\ trail' = Append(trail, "success")
    /\ save_to_history(video_id, Title(video_id), eff_percentage, Status("Success", <<>>))
    /\ pc' = ExitPc("end")
    /\ UNCHANGED <<callVars, mainVars, loopVars, opens, quits, eff_percentage, duration, watch_time, video_played,
                   ticks, stalls, plays, pauses, exc, excStep>>

\* lines 320-323: the except clause of the session
Except ==
    /\ pc = "except"
    /\ save_to_history(video_id, Title(video_id), eff_percentage,
                       Status("Error - ", Truncate(exc.msg)))
    /\ pc' = "finally"
    /\ UNCHANGED <<callVars, mainVars, loopVars, opens, quits, localVars>>

\* lines 325-326: driver.quit(), then simulate_watch returns
Finally ==
    /\ pc = "finally"
    /\ quits' = [quits EXCEPT ![idx] = @ + 1]
    /\ ResetLocals
    /\ video_details' = "unset"
    /\ pc' = "after_call"
    /\ UNCHANGED <<rows_before, mainVars, loopVars, history, opens>>

Next ==
    \/ ProcessArgs
    \/ Authenticate
    \/ CallSimulateWatch
    \/ GetDetails
    \/ Randomize
    \/ Launch
    \/ Navigate
    \/ Cookie
    \/ WaitVideo
    \/ ProbeDuration
    \/ Play
    \/ SkipAd
    \/ MonitorTick
    \/ Pause
    \/ Like
    \/ SuppressMenu
    \/ SuppressSelect
    \/ RecordSuccess
    \/ Except
    \/ Finally
    \/ AfterCall
    \/ Summary
    \/ MainExcept

Spec == Init /\ [][Next]_vars

\* the runs that start with a blacklist on file: they hold sessions for
\* listed ids and for unlisted ones, so every step of the program occurs
FairInit == Init /\ blacklist_csv # <<>>

\* the program is sequential and every wait and sleep is bounded: a step
\* that can be taken is taken
FairSpec == FairInit /\ [][Next]_vars /\ WF_vars(Next)

\* ---------------------------------------------------------------- claims
Last(seq) == seq[Len(seq)]
InTrail(step) == \E i \in 1..Len(trail) : trail[i] = step
Saved == Len(history) - rows_before
LastKind == Last(history).status.kind
OptionalSteps == {"cookie", "skip_ad", "like", "menu", "dont_rec"}

\* the call of simulate_watch for position i is over
Over(i) == i < idx \/ (i = idx /\ pc \in {"after_call", "main_except", "done"})

\* webdriver.Chrome() raised in the latest call
LaunchFailed == pc \in {"main_except", "done"} /\ trail # <<>> /\ Last(trail) = "launch"

\* C1: every call that opened a browser calls driver.quit() exactly once by
\* the time it is over, however it ends, never before the open and never
\* without one.
C1_QuitOncePerOpen ==
    \A i \in DOMAIN opens :
        /\ opens[i] <= 1
        /\ quits[i] <= opens[i]
        /\ Over(i) => quits[i] = opens[i]

C1_Witness ==
    /\ pc = "done"
    /\ Len(history) = 2
    /\ history[1].status.kind = "Error - "
    /\ history[2].status.kind = "Failed - Invalid Duration"
    /\ \A i \in DOMAIN opens : opens[i] = 1 /\ quits[i] = 1

\* C2: a failure inside a session whose browser was opened never stops the
\* batch: every run ends, and unless the authentication, the metadata lookup
\* or the browser start raised, it ends with the summary printed and
\* simulate_watch called for every id of the list, in list order.
C2_BatchContinues ==
    <>(/\ pc = "done"
       /\ (video_ids # <<>> /\ mainError = "none")
             => (summary /\ attempted = video_ids))

C2_Witness ==
    /\ pc = "done"
    /\ summary
    /\ Len(video_ids) = 2
    /\ Len(history) = 2
    /\ history[1].status.kind = "Error - "
    /\ history[1].video_id = video_ids[1]
    /\ history[2].video_id = video_ids[2]

\* C3 (as claimed): when webdriver.Chrome() raises for one id, the ids after
\* it in the list are still attempted: the run ends with simulate_watch
\* called for every id.
C3_LaunchErrorContained ==
    (pc = "done" /\ LaunchFailed) => attempted = video_ids

\* C4: a duration probe that returns None, zero or a negative number ends
\* the session with the row 'Failed - Invalid Duration' and nothing else:
\* no play command, no tick, no pause, no like and no suppress step.
C4_InvalidDurationEnds ==
    (/\ InTrail("duration")
     /\ excStep # "duration"
     /\ (duration = <<>> \/ duration[1] <= 0))
    => /\ pc = "finally"
       /\ Last(trail) = "duration"
       /\ Saved = 1
       /\ LastKind = "Failed - Invalid Duration"
       /\ Last(history).video_id = video_id
       /\ plays = 0 /\ ticks = 0 /\ pauses = 0 /\ video_played = "unset"

C4_Witness ==
    /\ pc = "finally"
    /\ Last(trail) = "duration"
    /\ excStep = "none"
    /\ duration = <<>>
    /\ LastKind = "Failed - Invalid Duration"

\* C5: after a duration > 0, a play command that reports failure ends the
\* session with the row 'Failed - Could Not Play'; no tick and no step after
\* the loop is performed.
C5_PlayFailureEnds ==
    video_played = "false"
    => /\ pc = "finally"
       /\ duration # <<>> /\ duration[1] > 0
       /\ Last(trail) = "play"
       /\ Saved = 1
       /\ LastKind = "Failed - Could Not Play"
       /\ Last(history).video_id = video_id
       /\ ticks = 0 /\ pauses = 0 /\ plays = 1

C5_Witness ==
    /\ pc = "finally"
    /\ video_played = "false"
    /\ LastKind = "Failed - Could Not Play"

\* C6 (as claimed): when the wait for the video element times out, the row
\* of the session is 'Failed - Could Not Play'.
C6_NoVideoElementIsCouldNotPlay ==
    (pc = "finally" /\ excStep = "wait_video" /\ exc.type = "Timeout")
    => LastKind = "Failed - Could Not Play"

\* C7 (as claimed): no exception of an optional step reaches the except
\* clause of the session, and a session that got as far as the pause ends
\* with the row 'Success'.
C7_OptionalFailuresIgnored ==
    /\ excStep \notin OptionalSteps
    /\ (pc = "finally" /\ pauses = 1) => (Saved = 1 /\ LastKind = "Success")

\* C8: each time the probe finds the player stopped the play script is run
\* again and the loop goes on; unless a driver call raises, the session ends
\* with all its ticks done and the row 'Success', whatever the number of
\* stalls.
C8_StallRecovery ==
    stalls > 0
    => /\ plays + (IF excStep = "resume" THEN 1 ELSE 0) = 1 + stalls
       /\ stalls <= ticks
       /\ exc = NoExc
            => /\ pc \in {"monitor", "like", "suppress", "dont_rec", "success", "finally"}
               /\ pc = "finally"
                    => /\ ticks = IntPart(watch_time)
                       /\ Saved = 1
                       /\ LastKind = "Success"

C8_Witness ==
    /\ pc = "finally"
    /\ exc = NoExc
    /\ stalls = 2
    /\ ticks = 3
    /\ plays = 3
    /\ LastKind = "Success"

\* C9: when get_video_details returns nothing the call returns at once: no
\* browser was opened or closed, no row was written, no step of the session
\* ran, and main goes on with the loop; rows exist only for opened sessions.
C9_NoDetailsSkips ==
    /\ video_details = "none"
         => /\ pc = "after_call"
            /\ opens[idx] = 0 /\ quits[idx] = 0
            /\ Saved = 0
            /\ trail = <<>>
            /\ mainError = "none"
    /\ Len(history) <= Cardinality({i \in DOMAIN opens : opens[i] > 0})

C9_Witness ==
    /\ pc = "done"
    /\ summary
    /\ Len(video_ids) = 2
    /\ opens[1] = 0
    /\ opens[2] = 1
    /\ Len(history) = 1
    /\ history[1].video_id = video_ids[2]

\* C10: an exception raised inside the try block stays inside the call: it
\* goes to the except clause, which writes one row whose status is 'Error - '
\* and the first 50 characters of the message (all of it when shorter), and
\* the browser opened for the call is still to be closed by the finally
\* clause.
C10_ErrorRowAndRelease ==
    exc # NoExc
    => /\ pc \in {"except", "finally"}
       /\ mainError = "none"
       /\ opens[idx] = 1 /\ quits[idx] = 0
       /\ pc = "except" => Saved = 0
       /\ pc = "finally"
            => /\ Saved = 1
               /\ LastKind = "Error - "
               /\ Last(history).video_id = video_id
               /\ Len(Last(history).status.detail) <= ErrorPrefixLen
               /\ Last(history).status.detail
                    = [i \in 1..Min(Len(exc.msg), ErrorPrefixLen) |-> exc.msg[i]]

C10_Witness ==
    /\ pc = "finally"
    /\ excStep = "pause"
    /\ Len(exc.msg) > ErrorPrefixLen
    /\ LastKind = "Error - "
    /\ Len(Last(history).status.detail) = ErrorPrefixLen

\* C11 (as claimed): every row of the history carries the fraction main
\* passed to simulate_watch, whatever its status and with randomization on
\* or off.
C11_RowCarriesRequestedFraction ==
    \A i \in 1..Len(history) : history[i].percentage = watch_percentage

\* C12 (as claimed): the menu step is entered only for a blacklisted id,
\* after all ticks and the pause, and a session that entered it ends with
\* the row 'Success' whether or not the menu or its entry could be clicked.
C12_SuppressKeepsSuccess ==
    /\ InTrail("menu")
         => /\ IsBlacklisted(video_id)
            /\ pauses = 1
            /\ ticks = IntPart(watch_time)
    /\ (pc = "finally" /\ InTrail("menu"))
         => /\ Saved = 1
            /\ LastKind = "Success"

\* C13: once the watch fraction of a session is fixed it equals the
\* requested fraction when randomization is off, and when it is on it is
\* clamp(requested + v, 0.10, 0.95) for some v in [-0.10, 0.10] and so lies
\* in [0.10, 0.95], whatever fraction was requested.
C13_EffectiveFraction ==
    (pc = "launch" \/ InTrail("launch"))
      => IF randomize
         THEN /\ eff_percentage >= MinPercentage
              /\ eff_percentage <= MaxPercentage
              /\ \E v \in (-MaxVariation)..MaxVariation :
                    eff_percentage =
                       IF watch_percentage + v < MinPercentage THEN MinPercentage
                       ELSE IF watch_percentage + v > MaxPercentage THEN MaxPercentage
                       ELSE watch_percentage + v
         ELSE eff_percentage = watch_percentage

\* a requested 5% with randomization on is raised to the lower limit
C13_Witness ==
    /\ pc = "navigate"
    /\ randomize
    /\ watch_percentage = 5
    /\ eff_percentage = MinPercentage

\* C14 (as claimed): in every state of a session the number of monitoring
\* ticks performed is at most the probed duration in seconds, for every
\* fraction that can be passed and with randomization on or off.
C14_TicksWithinDuration ==
    ticks <= (IF duration = <<>> \/ duration[1] <= 0 THEN 0 ELSE duration[1])

\* C15: sessions run one at a time and in input order: at most one browser
\* is open at any moment, it belongs to the id main is currently at, and
\* the browser of every earlier id was closed before the next was opened.
C15_OneSessionAtATime ==
    /\ Cardinality({i \in DOMAIN opens : opens[i] > quits[i]}) <= 1
    /\ \A i \in DOMAIN opens :
          /\ opens[i] > quits[i] => i = idx
          /\ opens[i] > 0 => i <= idx
          /\ i < idx => quits[i] = opens[i]
    /\ Len(attempted) <= Len(video_ids)
    /\ attempted = SubSeq(video_ids, 1, Len(attempted))

\* the browser for the second id is open, the first one's was closed
C15_Witness ==
    /\ pc = "navigate"
    /\ idx = 2
    /\ opens[1] = 1
    /\ quits[1] = 1
    /\ opens[2] = 1
    /\ quits[2] = 0

\* C16 (as claimed): after each video of the list that is followed by
\* another one main waits, and after the last video it does not, also when
\* an id occurs more than once in the list.
C16_DelayBetweenVideosOnly ==
    \A i \in 1..Len(video_ids) :
       IF i < idx
       THEN i \in delays <=> i < Len(video_ids)
       ELSE i \notin delays

\* positions of a step in the trail of the current session
At(step) == {i \in 1..Len(trail) : trail[i] = step}

\* floor(duration * effective fraction), for a session whose probe returned
\* a usable duration
WatchSeconds == (duration[1] * eff_percentage) \div 100

Opening == <<"launch", "navigate", "cookie", "wait_video", "duration", "play", "skip_ad">>

\* the steps after the watch loop: the suppress steps are taken for a
\* blacklisted id only, the second one only when the menu opened
Closings ==
    {<<"pause", "like">> \o mid \o <<"success">> :
        mid \in {<<>>, <<"menu">>, <<"menu", "dont_rec">>}}

\* C18: a 'Success' row is written only by a session that went through
\* every stage once and in order: browser, page, video element found,
\* duration > 0, play reported success, all ticks, pause, then the
\* post-watch steps; no stage is missing or repeated and no exception was
\* raised.
C18_SuccessPath ==
    (pc = "finally" /\ Saved = 1 /\ LastKind = "Success")
    => /\ exc = NoExc
       /\ duration # <<>>
       /\ duration[1] > 0
       /\ video_played = "true"
       /\ ticks = WatchSeconds
       /\ pauses = 1
       /\ \E closing \in Closings :
             trail = Opening \o [i \in 1..ticks |-> "tick"] \o closing
       /\ InTrail("menu") => IsBlacklisted(video_id)

\* three ticks, then pause, like and both suppress steps
C18_Witness ==
    /\ pc = "finally"
    /\ LastKind = "Success"
    /\ Saved = 1
    /\ ticks = 3
    /\ InTrail("dont_rec")

StatusKinds == {"Success", "Failed - Invalid Duration", "Failed - Could Not Play", "Error - "}

\* C19: every change of the history is one row added at its end, for the id
\* of the session whose browser is open, with one of the four statuses, and
\* it is the first row of that session; the rows already present stay as
\* they are; and a browser is closed only after its session wrote its row.
C19_OneRowPerSession ==
    [][ /\ history' # history
          => /\ Len(history') = Len(history) + 1
             /\ SubSeq(history', 1, Len(history)) = history
             /\ Last(history').status.kind \in StatusKinds
             /\ Last(history').video_id = video_id
             /\ Last(history').status.kind # "Error - "
                  => Last(history').status.detail = <<>>
             /\ opens[idx] = 1
             /\ quits[idx] = 0
             /\ Saved = 0
        /\ quits' # quits
          => /\ history' = history
             /\ opens[idx] = 1
             /\ Saved = 1
      ]_vars

\* the second session of a run has written its row under the first one's
\* and closed its browser
C19_Witness ==
    /\ pc = "after_call"
    /\ idx = 2
    /\ Len(history) = 2
    /\ history[1].status.kind = "Failed - Invalid Duration"
    /\ history[2].status.kind = "Success"
    /\ quits[2] = 1

\* the elements of a sequence
Range(seq) == {seq[i] : i \in 1..Len(seq)}

\* C20: only the step of main that handles the arguments changes the
\* blacklist, and it does so before any session has started; it keeps the
\* entries that were loaded, and adds each id given with --blacklist or in
\* the blacklist file once, unless it is already there; no step of a watch
\* session changes the list or its file.
C20_BlacklistFrame ==
    [][ IF pc = "main"
        THEN /\ attempted = <<>>
             /\ \A i \in DOMAIN opens : opens[i] = 0
             /\ blacklist' = blacklist_csv'
             /\ Len(blacklist_csv') >= Len(blacklist_csv)
             /\ SubSeq(blacklist_csv', 1, Len(blacklist_csv)) = blacklist_csv
             /\ \A i, j \in (Len(blacklist_csv) + 1)..Len(blacklist_csv') :
                   /\ blacklist_csv'[i] \notin Range(blacklist_csv)
                   /\ blacklist_csv'[i] \in Range(args.blacklist) \cup Range(args.blacklist_file)
                   /\ i # j => blacklist_csv'[i] # blacklist_csv'[j]
             /\ Range(args.blacklist) \cup (Range(args.blacklist_file) \ {""})
                   \subseteq Range(blacklist_csv')
        ELSE UNCHANGED <<blacklist, blacklist_csv>>
      ]_vars

\* ids given twice and an id already listed were passed, and a session for
\* a blacklisted id has run its suppress steps
C20_Witness ==
    /\ pc = "finally"
    /\ InTrail("dont_rec")
    /\ args.blacklist = <<"v1", "v3", "v3">>
    /\ blacklist = <<"v1", "v3", "v4">>
    /\ blacklist_csv = blacklist

====
